---- MODULE Spec2Model ----
(***************************************************************************)
(* Model of the with-tsconfig-paths example of vite-ts-monorepo-rfc:       *)
(*   packages/lib/vite.config.ts  - the library build configuration        *)
(*   packages/app/vite.config.ts  - the application resolver configuration *)
(* and of the consuming process (the bundler) as README.md and RFC-v1.md   *)
(* document it: it loads one configuration file at start-up and then       *)
(* performs resolve and build steps with the loaded record.                *)
(*                                                                         *)
(* Strings that are parsed (paths, URLs, import specifiers) are sequences  *)
(* of tokens.  The characters the code treats specially are tokens of      *)
(* their own ("/", "%", " ", "\\" and the hex digits that may follow a     *)
(* "%"); a run of other characters is one token ("packages").  Paths are   *)
(* POSIX paths.                                                            *)
(***************************************************************************)
EXTENDS Naturals, Sequences, FiniteSets, TLC

VARIABLES
    kind,       \* kind[p]: which configuration file process p loads, "app" or "lib"
    root,       \* root[p]: absolute directory the repository is checked out in
    cwd,        \* cwd[p]: working directory the process was started from
    srcExists,  \* srcExists[p]: whether packages/lib/src exists in that checkout
    pc,         \* pc[p]: "start", "loaded" or "failed"
    cfg,        \* cfg[p]: the configuration record the process holds
    loads,      \* loads[p]: how many times p evaluated its configuration module
    last        \* last[p]: the outcome of p's most recent resolve or build step

vars == <<kind, root, cwd, srcExists, pc, cfg, loads, last>>

\* ------------------------------------------------------------------ bounds

\* Cap of the load counter (reached only if a process could load again).
MaxLoads == 2

\* ------------------------------------------------------------ the inputs

\* The process instances: each runs the bundler on one of the two packages.
Procs == {"p1", "p2"}

Kinds == {"app", "lib"}

\* Where the repository may be checked out: "/" itself, a plain directory,
\* and directories whose names hold characters a file URL must escape.
Roots ==
    { <<>>,
      <<"/", "repo">>,
      <<"/", "my", " ", "repo">>,
      <<"/", "a", "%", "2", "F", "b">>,
      <<"/", "c", "\\", "d", "/", "100", "%">> }

\* A working directory that is not the package directory.
OtherCwd == <<"/", "tmp">>

\* ------------------------------------------------------- string helpers

StartsWith(s, prefix) ==
    /\ Len(s) >= Len(prefix)
    /\ SubSeq(s, 1, Len(prefix)) = prefix

\* s.split("/"), with cur the segment being read.
RECURSIVE Split(_, _)
Split(s, cur) ==
    IF s = <<>> THEN <<cur>>
    ELSE IF Head(s) = "/" THEN <<cur>> \o Split(Tail(s), <<>>)
    ELSE Split(Tail(s), Append(cur, Head(s)))

\* The segments of an absolute path: "/a/b" -> <<"a", "b">>, "" -> <<>>.
PathSegments(path) == IF path = <<>> THEN <<>> ELSE Tail(Split(path, <<>>))

\* "/" + segments.join("/")
RECURSIVE JoinSegments(_)
JoinSegments(segs) ==
    IF segs = <<>> THEN <<>>
    ELSE <<"/">> \o Head(segs) \o JoinSegments(Tail(segs))

Ok(v) == [ok |-> TRUE, value |-> v]
Err(e) == [ok |-> FALSE, error |-> e]

\* ------------------------------------------- node:url, as the config uses it

\* Percent-encoding of one character of a path put into a file URL.
EncodeChar(c) ==
    CASE c = "%"  -> <<"%", "2", "5">>
      [] c = "\\" -> <<"%", "5", "C">>
      [] c = " "  -> <<"%", "2", "0">>
      [] OTHER    -> <<c>>

RECURSIVE EncodeSegment(_)
EncodeSegment(seg) ==
    IF seg = <<>> THEN <<>>
    ELSE EncodeChar(Head(seg)) \o EncodeSegment(Tail(seg))

\* import.meta.url of a module file: the file URL of its absolute path.
pathToFileURL(path) ==
    LET segs == PathSegments(path)
    IN  [ok |-> TRUE, protocol |-> "file:", host |-> "",
         path |-> [i \in 1..Len(segs) |-> EncodeSegment(segs[i])]]

\* "shorten a URL's path": drop the last segment, if any.
Shorten(path) ==
    IF path = <<>> THEN path ELSE SubSeq(path, 1, Len(path) - 1)

\* The URL parser's path state over the segments of a relative reference.
RECURSIVE PathState(_, _)
PathState(path, segs) ==
    IF segs = <<>> THEN path
    ELSE LET s == Head(segs)
             rest == Tail(segs)
         IN  IF s = <<"..">>
             THEN PathState(IF rest = <<>> THEN Append(Shorten(path), <<>>)
                                           ELSE Shorten(path), rest)
             ELSE IF s = <<".">>
             THEN PathState(IF rest = <<>> THEN Append(path, <<>>)
                                           ELSE path, rest)
             ELSE PathState(Append(path, s), rest)

\* The value of `undefined` as a base.
NoBase == Err("undefined")

\* new URL(input, base) for a relative reference `input` (no scheme, no
\* leading "/"): a TypeError without a valid base, otherwise the reference
\* is resolved against the base's path with its last segment removed.
URL(input, base) ==
    IF ~base.ok THEN Err("ERR_INVALID_URL")
    ELSE [ok |-> TRUE, protocol |-> base.protocol, host |-> base.host,
          path |-> PathState(Shorten(base.path), Split(input, <<>>))]

pathname(url) == JoinSegments(url.path)

\* The escapes that can be formed from the characters of the model.
IsEscape(h1, h2) ==
    <<h1, h2>> \in {<<"2", "5">>, <<"5", "C">>, <<"2", "0">>, <<"2", "F">>}

Unescape(h1, h2) ==
    CASE <<h1, h2>> = <<"2", "5">> -> "%"
      [] <<h1, h2>> = <<"5", "C">> -> "\\"
      [] <<h1, h2>> = <<"2", "0">> -> " "
      [] <<h1, h2>> = <<"2", "F">> -> "/"

\* Whether decodeURIComponent accepts s: every "%" starts an escape.
RECURSIVE WellEscaped(_)
WellEscaped(s) ==
    IF s = <<>> THEN TRUE
    ELSE IF Head(s) = "%"
    THEN /\ Len(s) >= 3
         /\ IsEscape(s[2], s[3])
         /\ WellEscaped(SubSeq(s, 4, Len(s)))
    ELSE WellEscaped(Tail(s))

RECURSIVE Decode(_)
Decode(s) ==
    IF s = <<>> THEN <<>>
    ELSE IF Head(s) = "%"
    THEN <<Unescape(s[2], s[3])>> \o Decode(SubSeq(s, 4, Len(s)))
    ELSE <<Head(s)>> \o Decode(Tail(s))

\* decodeURIComponent(s): a URIError on a malformed escape.
decodeURIComponent(s) ==
    IF WellEscaped(s) THEN Ok(Decode(s)) ELSE Err("URIError")

\* Whether the pathname holds an encoded "/" (%2F).
HasEncodedSlash(s) ==
    \E i \in 1..Len(s) :
        /\ s[i] = "%"
        /\ i + 2 <= Len(s)
        /\ s[i + 1] = "2"
        /\ s[i + 2] = "F"

\* fileURLToPath(url) on POSIX: it throws on an invalid URL, a scheme other
\* than file:, a host, or an encoded "/"; otherwise the decoded pathname.
fileURLToPath(url) ==
    IF ~url.ok THEN url
    ELSE IF url.protocol # "file:" THEN Err("ERR_INVALID_URL_SCHEME")
    ELSE IF url.host # "" THEN Err("ERR_INVALID_FILE_URL_HOST")
    ELSE IF HasEncodedSlash(pathname(url)) THEN Err("ERR_INVALID_FILE_URL_PATH")
    ELSE decodeURIComponent(pathname(url))

\* ------------------------------------------------- the two config modules

\* vite's defineConfig: a typing helper that returns its argument.
defineConfig(config) == config

\* The alias key of the app config, '@test/lib'.
AliasKey == <<"@test", "/", "lib">>

\* The relative reference of the app config, '../lib/src'.
AliasTarget == <<"..", "/", "lib", "/", "src">>

\* The file a process loads: <root>/with-tsconfig-paths/packages/<kind>/vite.config.ts
PackageDir(p) ==
    root[p] \o <<"/", "with-tsconfig-paths", "/", "packages", "/", kind[p]>>

ConfigFile(p) == PackageDir(p) \o <<"/", "vite.config.ts">>

\* import.meta.url inside the configuration module of process p.
import_meta_url(p) == pathToFileURL(ConfigFile(p))

\* Mutants of the app config (a different key, target or base).
AppConfigWith(key, target, base) ==
    LET path == fileURLToPath(URL(target, base))
    IN  IF path.ok
        THEN Ok(defineConfig([resolve |-> [alias |-> (key :> path.value)]]))
        ELSE path

AppConfigDist(p) ==
    AppConfigWith(AliasKey, <<"..", "/", "lib", "/", "dist">>, import_meta_url(p))

AppConfigWrongKey(p) ==
    AppConfigWith(<<"@test", "/", "libs">>, AliasTarget, import_meta_url(p))

AppConfigTrailingSlash(p) ==
    AppConfigWith(AliasKey, AliasTarget \o <<"/">>, import_meta_url(p))

\* '../lib': the package directory instead of its source directory.
AppConfigLibRoot(p) ==
    AppConfigWith(AliasKey, <<"..", "/", "lib">>, import_meta_url(p))

\* '@test': the whole scope aliased instead of the one package.
AppConfigScopeKey(p) ==
    AppConfigWith(<<"@test">>, <<"..", "/", "lib", "/", "src">>, import_meta_url(p))

AppConfigNoBase(p) == AppConfigWith(AliasKey, AliasTarget, NoBase)

\* path.resolve('../lib/src'): relative to the working directory.
AppConfigFromCwd(p) ==
    Ok(defineConfig([resolve |-> [alias |->
        (AliasKey :> JoinSegments(PathState(PathSegments(cwd[p]),
                                            Split(AliasTarget, <<>>))))]]))

\* Evaluation of packages/app/vite.config.ts in process p: the exported
\* record, or the error thrown while computing the alias value.
AppConfig(p) ==
    LET path == fileURLToPath(URL(AliasTarget, import_meta_url(p)))
    IN  IF path.ok
        THEN Ok(defineConfig([resolve |-> [alias |-> (AliasKey :> path.value)]]))
        ELSE path

LibConfigTwoFormats ==
    defineConfig([build |-> [lib |->
        [entry |-> "src/index.ts", fileName |-> "lib", formats |-> <<"es", "cjs">>]]])

\* Evaluation of packages/lib/vite.config.ts: the exported record.
LibConfig ==
    defineConfig([build |-> [lib |->
        [entry |-> "src/index.ts", fileName |-> "lib", formats |-> <<"es">>]]])

\* The lib record with its file name taken from the working directory.
EvalConfigEnv(p) ==
    IF kind[p] = "app" THEN AppConfig(p)
    ELSE Ok([build |-> [lib |->
            [entry |-> "src/index.ts",
             fileName |-> IF cwd[p] = OtherCwd THEN "tmp" ELSE "lib",
             formats |-> <<"es">>]]])

\* Evaluation of the configuration module of process p.
EvalConfig(p) ==
    IF kind[p] = "app" THEN AppConfig(p) ELSE Ok(LibConfig)

\* ------------------------------------------------------- the file system

\* packages/lib/src and packages/lib/dist of the checkout of process p.
LibDir(p) ==
    root[p] \o <<"/", "with-tsconfig-paths", "/", "packages", "/", "lib">>

LibSrcDir(p) == LibDir(p) \o <<"/", "src">>

LibDistDir(p) == LibDir(p) \o <<"/", "dist">>

\* Whether path is dir itself or lies under it.
Within(path, dir) == path = dir \/ StartsWith(path, dir \o <<"/">>)

\* lib is a published package whose dist holds its bundled files; its
\* source directory may be missing from the checkout.
Exists(p, path) ==
    \/ Within(path, LibSrcDir(p)) /\ srcExists[p]
    \/ Within(path, LibDistDir(p))

\* ----------------------------------------------------- the bundler's steps

\* The name lib is published and linked into app under.
LibPackageName == <<"@test", "/", "lib">>

\* The import specifiers a step may resolve.
Specifiers ==
    { <<"@test", "/", "lib">>,
      <<"@test", "/", "lib", "/", "foo">>,
      <<"@test", "/", "lib", "rary">>,
      <<"@test", "/", "lib", "2", "/", "x">>,
      <<".", "/", "main.ts">>,
      <<"vue">> }

NoConfig == [unloaded |-> TRUE]

NoStep == [step |-> "none"]

\* A string alias key matches the importee itself and its deep imports.
Matches(pattern, importee) ==
    \/ importee = pattern
    \/ StartsWith(importee, pattern \o <<"/">>)

\* Resolution without an alias: lib's package exports point into its dist
\* directory; any other specifier is left to the normal resolution.
NormalResolve(p, importee) ==
    IF Matches(LibPackageName, importee)
    THEN LET id == LibDistDir(p)
                   \o SubSeq(importee, Len(LibPackageName) + 1, Len(importee))
         IN  [step |-> "resolve", importee |-> importee, via |-> "exports",
              id |-> id,
              outcome |-> IF Exists(p, id) THEN "resolved" ELSE "error"]
    ELSE [step |-> "resolve", importee |-> importee, via |-> "normal",
          id |-> importee, outcome |-> "fallthrough"]

\* The alias map of a record (none when the record declares no resolve).
AliasOf(config) ==
    IF "resolve" \in DOMAIN config THEN config.resolve.alias ELSE <<>>

\* One resolution: a matching alias entry replaces its key in the importee
\* by its value, before the package's exports are looked at.
ResolveId(p, importee) ==
    LET alias == AliasOf(cfg[p])
        hits == {k \in DOMAIN alias : Matches(k, importee)}
    IN  IF hits # {}
        THEN LET k == CHOOSE k \in hits : TRUE
                 id == alias[k] \o SubSeq(importee, Len(k) + 1, Len(importee))
             IN  [step |-> "resolve", importee |-> importee, via |-> "alias",
                  id |-> id,
                  outcome |-> IF Exists(p, id) THEN "resolved" ELSE "error"]
        ELSE NormalResolve(p, importee)

\* The library build: one output per declared format.
BuildOutputs(config) ==
    LET lib == config.build.lib
    IN  {[entry |-> lib.entry, fileName |-> lib.fileName, format |-> lib.formats[i]] :
            i \in 1..Len(lib.formats)}

\* ------------------------------------------------ TypeScript's resolution

\* The directory of the tsconfig.json whose paths are relative to it: the
\* one that holds packages/.
TsConfigDir(p) == root[p] \o <<"/", "with-tsconfig-paths">>

\* compilerOptions.paths: "@test/lib" and, for deep imports, "@test/lib/*".
TsConfigPaths ==
    << [pattern |-> <<"@test", "/", "lib">>,
        to |-> << <<"packages", "/", "lib", "/", "src">> >>],
       [pattern |-> <<"@test", "/", "lib", "/", "*">>,
        to |-> << <<"packages", "/", "lib", "/", "src", "/", "*">> >>] >>

\* The position of the "*" of a pattern, 0 when it has none.
StarAt(pattern) ==
    IF \E i \in 1..Len(pattern) : pattern[i] = "*"
    THEN CHOOSE i \in 1..Len(pattern) : pattern[i] = "*"
    ELSE 0

\* A pattern without "*" matches itself; one with "*" matches every name
\* that starts with what precedes the "*" and ends with what follows it.
PatternMatches(pattern, name) ==
    LET i == StarAt(pattern)
    IN  IF i = 0 THEN name = pattern
        ELSE /\ Len(name) >= Len(pattern) - 1
             /\ SubSeq(name, 1, i - 1) = SubSeq(pattern, 1, i - 1)
             /\ SubSeq(name, Len(name) - (Len(pattern) - i) + 1, Len(name)) =
                  SubSeq(pattern, i + 1, Len(pattern))

\* What the "*" of a matching pattern stands for in name.
StarText(pattern, name) ==
    LET i == StarAt(pattern)
    IN  IF i = 0 THEN <<>>
        ELSE SubSeq(name, i, Len(name) - (Len(pattern) - i))

\* A substitution with its "*" replaced by the matched text.
Substitute(to, text) ==
    LET i == StarAt(to)
    IN  IF i = 0 THEN to
        ELSE SubSeq(to, 1, i - 1) \o text \o SubSeq(to, i + 1, Len(to))

\* TypeScript's resolution of a module name: the matching paths entry (an
\* exact pattern before a "*" pattern, then the longest prefix) redirects
\* it to its substitution under the tsconfig's directory; when nothing is
\* there, or no entry matches, the normal resolution goes on.
TsResolveId(p, name) ==
    LET hits == {i \in 1..Len(TsConfigPaths) :
                    PatternMatches(TsConfigPaths[i].pattern, name)}
    IN  IF hits # {}
        THEN LET best == CHOOSE i \in hits : \A j \in hits :
                            \/ StarAt(TsConfigPaths[i].pattern) = 0
                            \/ /\ StarAt(TsConfigPaths[j].pattern) # 0
                               /\ StarAt(TsConfigPaths[i].pattern) >=
                                    StarAt(TsConfigPaths[j].pattern)
                 entry == TsConfigPaths[best]
                 id == TsConfigDir(p) \o <<"/">>
                       \o Substitute(entry.to[1], StarText(entry.pattern, name))
             IN  [step |-> "ts", importee |-> name, via |-> "paths", id |-> id,
                  outcome |-> IF Exists(p, id) THEN "resolved" ELSE "fallback"]
        ELSE [NormalResolve(p, name) EXCEPT !.step = "ts"]

\* --------------------------------------------------------------- actions

Init ==
    /\ kind \in [Procs -> Kinds]
    /\ root \in [Procs -> Roots]
    /\ \E inPackage \in [Procs -> BOOLEAN] :
          cwd = [p \in Procs |-> IF inPackage[p] THEN PackageDir(p) ELSE OtherCwd]
    /\ srcExists \in [Procs -> BOOLEAN]
    /\ pc = [p \in Procs |-> "start"]
    /\ cfg = [p \in Procs |-> NoConfig]
    /\ loads = [p \in Procs |-> 0]
    /\ last = [p \in Procs |-> NoStep]

CanLoadAgain(p) == pc[p] \in {"start", "loaded"}

\* The configuration module is evaluated when the process starts: its
\* export is a record, built once by the module's top-level code.
CanLoad(p) == pc[p] = "start"

\* A load whose record is one object shared by every process.
LoadShared(p) ==
    /\ CanLoad(p)
    /\ loads[p] < MaxLoads
    /\ LET r == EvalConfig(p)
       IN  /\ pc' = [pc EXCEPT ![p] = IF r.ok THEN "loaded" ELSE "failed"]
           /\ cfg' = [q \in Procs |-> IF r.ok THEN r.value ELSE NoConfig]
    /\ loads' = [loads EXCEPT ![p] = @ + 1]
    /\ UNCHANGED <<kind, root, cwd, srcExists, last>>

\* The start-up load: the module is evaluated in one step; the process
\* holds the exported record, or has failed with the error thrown.
Load(p) ==
    /\ CanLoad(p)
    /\ loads[p] < MaxLoads
    /\ LET r == EvalConfig(p)
       IN  /\ pc' = [pc EXCEPT ![p] = IF r.ok THEN "loaded" ELSE "failed"]
           /\ cfg' = [cfg EXCEPT ![p] = IF r.ok THEN r.value ELSE NoConfig]
    /\ loads' = [loads EXCEPT ![p] = @ + 1]
    /\ UNCHANGED <<kind, root, cwd, srcExists, last>>

\* A resolve step that stores the resolved id back into the alias map.
ResolveCaching(p, importee) ==
    /\ pc[p] = "loaded"
    /\ last' = [last EXCEPT ![p] = ResolveId(p, importee)]
    /\ cfg' = [cfg EXCEPT ![p] =
                 IF last'[p].via = "alias"
                 THEN [resolve |-> [alias |-> (importee :> last'[p].id)]]
                 ELSE @]
    /\ UNCHANGED <<kind, root, cwd, srcExists, pc, loads>>

\* A resolve step of the bundler, with the record loaded at start-up.
Resolve(p, importee) ==
    /\ pc[p] = "loaded"
    /\ last' = [last EXCEPT ![p] = ResolveId(p, importee)]
    /\ UNCHANGED <<kind, root, cwd, srcExists, pc, cfg, loads>>

\* A library build step, with the record loaded at start-up.
Build(p) ==
    /\ pc[p] = "loaded"
    /\ "build" \in DOMAIN cfg[p]
    /\ last' = [last EXCEPT ![p] = [step |-> "build", outputs |-> BuildOutputs(cfg[p])]]
    /\ UNCHANGED <<kind, root, cwd, srcExists, pc, cfg, loads>>

Next ==
    \/ \E p \in Procs : Load(p)
    \/ \E p \in Procs, importee \in Specifiers : Resolve(p, importee)
    \/ \E p \in Procs : Build(p)

Spec == Init /\ [][Next]_vars

\* TypeScript resolving an import in the checkout of p; it reads
\* tsconfig.json, not the bundler's configuration.
TsResolve(p, importee) ==
    /\ last' = [last EXCEPT ![p] = TsResolveId(p, importee)]
    /\ UNCHANGED <<kind, root, cwd, srcExists, pc, cfg, loads>>

NextWithTs ==
    \/ Next
    \/ \E p \in Procs, importee \in Specifiers : TsResolve(p, importee)

\* The bundler's processes together with TypeScript's resolutions.
SpecWithTs == Init /\ [][NextWithTs]_vars

\* ---------------------------------------------------------------- claims

\* C1: a loaded library record consists of exactly build.lib with
\* entry "src/index.ts", fileName "lib" and the single format "es", and
\* declares nothing else (no resolve, no alias).
C1_LibRecordExact ==
    \A p \in Procs :
        (kind[p] = "lib" /\ pc[p] = "loaded") =>
            /\ DOMAIN cfg[p] = {"build"}
            /\ DOMAIN cfg[p].build = {"lib"}
            /\ DOMAIN cfg[p].build.lib = {"entry", "fileName", "formats"}
            /\ cfg[p].build.lib.entry = "src/index.ts"
            /\ cfg[p].build.lib.fileName = "lib"
            /\ cfg[p].build.lib.formats = <<"es">>

C1_Witness ==
    \E p \in Procs :
        /\ kind[p] = "lib"
        /\ pc[p] = "loaded"
        /\ last[p].step = "build"
        /\ Cardinality(last[p].outputs) = 1

\* C2: a loaded application record holds exactly one alias entry, with key
\* "@test/lib" and as value the absolute path of the sibling package's
\* source directory, <checkout>/with-tsconfig-paths/packages/lib/src; it
\* declares no other alias and no build settings.
C2_AppRecordExact ==
    \A p \in Procs :
        (kind[p] = "app" /\ pc[p] = "loaded") =>
            /\ DOMAIN cfg[p] = {"resolve"}
            /\ DOMAIN cfg[p].resolve = {"alias"}
            /\ DOMAIN cfg[p].resolve.alias = {<<"@test", "/", "lib">>}
            /\ cfg[p].resolve.alias[<<"@test", "/", "lib">>] =
                 root[p] \o <<"/", "with-tsconfig-paths", "/", "packages",
                              "/", "lib", "/", "src">>

C2_Witness ==
    \E p \in Procs :
        /\ kind[p] = "app"
        /\ pc[p] = "loaded"
        /\ root[p] = <<"/", "my", " ", "repo">>
        /\ cfg[p].resolve.alias[<<"@test", "/", "lib">>] =
             <<"/", "my", " ", "repo", "/", "with-tsconfig-paths", "/",
               "packages", "/", "lib", "/", "src">>

\* C3: every resolution of "@test/lib" under the app's configuration goes
\* through the alias and lands in lib's source directory, never in lib's
\* dist directory, where lib's package exports point.
C3_BareImportInSrc ==
    \A p \in Procs :
        (/\ kind[p] = "app"
         /\ last[p].step = "resolve"
         /\ last[p].importee = <<"@test", "/", "lib">>) =>
            /\ last[p].via = "alias"
            /\ Within(last[p].id, LibSrcDir(p))
            /\ ~Within(last[p].id, LibDistDir(p))

\* An app resolved "@test/lib" into src while a lib process, which has no
\* alias, resolved the same specifier through the exports into dist.
C3_Witness ==
    \E p, q \in Procs :
        /\ kind[p] = "app"
        /\ last[p].step = "resolve"
        /\ last[p].importee = <<"@test", "/", "lib">>
        /\ last[p].outcome = "resolved"
        /\ kind[q] = "lib"
        /\ last[q].step = "resolve"
        /\ last[q].importee = <<"@test", "/", "lib">>
        /\ last[q].via = "exports"
        /\ Within(last[q].id, LibDistDir(q))

\* C4: under the app's configuration "@test/lib" resolves to
\* packages/lib/src and a deep specifier "@test/lib/p" to
\* packages/lib/src/p, the remainder of the specifier unchanged.
C4_DefaultAndDeepImports ==
    \A p \in Procs :
        (kind[p] = "app" /\ last[p].step = "resolve") =>
            LET key == <<"@test", "/", "lib">>
                s == last[p].importee
            IN  /\ s = key => last[p].id = LibSrcDir(p)
                /\ StartsWith(s, key \o <<"/">>) =>
                     last[p].id = LibSrcDir(p) \o SubSeq(s, Len(key) + 1, Len(s))

C4_Witness ==
    \E p \in Procs :
        /\ kind[p] = "app"
        /\ last[p].step = "resolve"
        /\ last[p].importee = <<"@test", "/", "lib", "/", "foo">>
        /\ last[p].outcome = "resolved"
        /\ last[p].id = <<"/", "repo", "/", "with-tsconfig-paths", "/",
                          "packages", "/", "lib", "/", "src", "/", "foo">>

C8_LoadNeverFails ==
    \A p \in Procs :
        /\ pc[p] # "failed"
        /\ loads[p] > 0 => (pc[p] = "loaded" /\ cfg[p] # NoConfig)

\* A checkout path with "%" and "\" and no lib/src: the load succeeded and
\* the failure came from the resolve step.
C8_Witness ==
    \E p \in Procs :
        /\ kind[p] = "app"
        /\ root[p] = <<"/", "c", "\\", "d", "/", "100", "%">>
        /\ ~srcExists[p]
        /\ pc[p] = "loaded"
        /\ last[p].step = "resolve"
        /\ last[p].via = "alias"
        /\ last[p].outcome = "error"

\* C9 as stated: every load of a configuration file yields the identical
\* record, fixed by the file's text alone.
C9_RecordFixedByText ==
    \A p, q \in Procs :
        (kind[p] = kind[q] /\ pc[p] = "loaded" /\ pc[q] = "loaded") =>
            cfg[p] = cfg[q]

\* C9 amended: every load of the lib file yields the identical record;
\* every load of the app file yields a record with the same single alias
\* key, and two loads of the app file at the same location yield the
\* identical record.
C9_RecordFixedByTextAndLocation ==
    \A p, q \in Procs :
        (kind[p] = kind[q] /\ pc[p] = "loaded" /\ pc[q] = "loaded") =>
            /\ kind[p] = "lib" => cfg[p] = cfg[q]
            /\ kind[p] = "app" =>
                 /\ DOMAIN cfg[p].resolve.alias = DOMAIN cfg[q].resolve.alias
                 /\ ConfigFile(p) = ConfigFile(q) => cfg[p] = cfg[q]

\* Two app loads of checkouts at different locations: the same alias key,
\* different alias values.
C9_Witness ==
    \E p, q \in Procs :
        /\ kind[p] = "app" /\ kind[q] = "app"
        /\ pc[p] = "loaded" /\ pc[q] = "loaded"
        /\ root[p] # root[q]
        /\ DOMAIN cfg[p].resolve.alias = DOMAIN cfg[q].resolve.alias
        /\ cfg[p] # cfg[q]

\* C10: the alias value depends only on where the config file is: it is
\* lib/src under the parent of the directory that holds the file (not
\* under that directory itself), from whichever working directory the
\* process was started.
C10_AliasFromFileLocation ==
    \A p \in Procs :
        (kind[p] = "app" /\ pc[p] = "loaded") =>
            LET value == cfg[p].resolve.alias[<<"@test", "/", "lib">>]
                dir == Shorten(PathSegments(ConfigFile(p)))
            IN  /\ value = JoinSegments(Shorten(dir) \o <<<<"lib">>, <<"src">>>>)
                /\ value # JoinSegments(dir \o <<<<"lib">>, <<"src">>>>)
                /\ \A q \in Procs :
                      (/\ kind[q] = "app"
                       /\ pc[q] = "loaded"
                       /\ ConfigFile(q) = ConfigFile(p)) =>
                          cfg[q].resolve.alias[<<"@test", "/", "lib">>] = value

\* Two loads of the same file, one started in the package directory and
\* one elsewhere.
C10_Witness ==
    \E p, q \in Procs :
        /\ kind[p] = "app" /\ kind[q] = "app"
        /\ pc[p] = "loaded" /\ pc[q] = "loaded"
        /\ ConfigFile(p) = ConfigFile(q)
        /\ cwd[p] = OtherCwd
        /\ cwd[q] = PackageDir(q)

\* C11: TypeScript's resolution through the tsconfig paths and the
\* bundler's resolution through the app's alias agree: in one checkout,
\* "@test/lib" and every deep specifier "@test/lib/p" are redirected by
\* both to the same location, in packages/lib/src.
C11_TsAndBundlerAgree ==
    \A p, q \in Procs :
        (/\ kind[p] = "app"
         /\ last[p].step = "resolve"
         /\ last[q].step = "ts"
         /\ root[q] = root[p]
         /\ last[q].importee = last[p].importee
         /\ \/ last[p].importee = <<"@test", "/", "lib">>
            \/ StartsWith(last[p].importee, <<"@test", "/", "lib", "/">>)) =>
            /\ last[p].via = "alias"
            /\ last[q].via = "paths"
            /\ last[q].id = last[p].id
            /\ Within(last[p].id, LibSrcDir(p))

\* Both resolved the deep import "@test/lib/foo" in the checkout /my repo.
C11_Witness ==
    \E p, q \in Procs :
        /\ kind[p] = "app"
        /\ root[p] = <<"/", "my", " ", "repo">>
        /\ root[q] = root[p]
        /\ last[p].step = "resolve"
        /\ last[q].step = "ts"
        /\ last[p].importee = <<"@test", "/", "lib", "/", "foo">>
        /\ last[q].importee = <<"@test", "/", "lib", "/", "foo">>
        /\ last[p].outcome = "resolved"
        /\ last[q].outcome = "resolved"
        /\ last[q].id = LibSrcDir(p) \o <<"/", "foo">>

\* C12: the app's alias redirects only the specifiers that are "@test/lib"
\* or begin with "@test/lib/"; every other one, "@test/library" and
\* "@test/lib2/x" included, is left unchanged by the alias step and falls
\* through to the normal resolution.
C12_AliasRedirectsOnlyItsPackage ==
    \A p \in Procs :
        (kind[p] = "app" /\ last[p].step = "resolve") =>
            LET s == last[p].importee
                own == \/ s = <<"@test", "/", "lib">>
                       \/ StartsWith(s, <<"@test", "/", "lib", "/">>)
            IN  /\ last[p].via = "alias" <=> own
                /\ ~own => /\ last[p].id = s
                           /\ last[p].via = "normal"
                           /\ last[p].outcome = "fallthrough"

\* One app resolved "@test/library" and another "@test/lib2/x": both were
\* left as they are.
C12_Witness ==
    \E p, q \in Procs :
        /\ kind[p] = "app" /\ kind[q] = "app"
        /\ last[p].step = "resolve" /\ last[q].step = "resolve"
        /\ last[p].importee = <<"@test", "/", "lib", "rary">>
        /\ last[p].id = <<"@test", "/", "lib", "rary">>
        /\ last[q].importee = <<"@test", "/", "lib", "2", "/", "x">>
        /\ last[q].via = "normal"

====
